---- MODULE Spec2Model ----
(***************************************************************************)
(* Model of crend/main.c: the Vulkan bootstrap of the renderer.            *)
(*                                                                         *)
(* The program's state is its five process-wide handles (main.c:16-20).    *)
(* The graphics backend is the environment: the instance layers and the    *)
(* physical devices it enumerates, and the handles it has handed out.      *)
(* crendInit is modelled one step per helper it calls (initInstance,       *)
(* initPhysicalDevice, initLogicalDevice), each step including the return  *)
(* of crendInit when the helper fails; crendDestroy is one step.           *)
(***************************************************************************)
EXTENDS Integers, Sequences, FiniteSets

\* ---------------------------------------------------------------- bounds
MaxLayers == 1
MaxDevices == 2
MaxFamilies == 2
MaxCalls == 2

\* ------------------------------------------------------ program constants
VALIDATION_LAYER_NAME == "VK_LAYER_KHRONOS_validation"

SUCCESS == 0
ERROR_INSTANCE_CREATION == 1
ERROR_VALIDATION_LAYERS == 2
ERROR_VULKAN_UNSUPPORTED == 3
ERROR_NO_COMPATIBLE_QUEUE == 4
ERROR_CANNOT_CREATE_LOGICAL_DEVICE == 5

\* Handles are opaque; 0 is the null handle the globals start with.
VK_NULL_HANDLE == 0

\* VkQueueFlags is a bit mask; a mask is modelled as the set of its bits and
\* bitwise AND as intersection.
requiredFlags == {"GRAPHICS", "COMPUTE", "TRANSFER"}

\* ------------------------------------------------------------ input sets
SeqsUpTo(S, n) == UNION {[1..k -> S] : k \in 0..n}

\* Layer names a backend may report.
LayerNames == {VALIDATION_LAYER_NAME, "VK_LAYER_other"}

\* Queue flag masks a family may report: a transfer-only family, a family
\* with two of the three required bits, and a family with every required bit
\* and one more.
QueueFlagSets ==
    {{"TRANSFER"}, {"GRAPHICS", "COMPUTE"},
     {"GRAPHICS", "COMPUTE", "TRANSFER", "SPARSE_BINDING"}}

RECURSIVE TotalFamilies(_)
TotalFamilies(D) ==
    IF D = <<>> THEN 0 ELSE Len(Head(D)) + TotalFamilies(Tail(D))

\* A device is the list of its queue families' flag masks, in backend order.
\* MaxFamilies bounds the queue families of the whole enumeration.
FamilyLists == SeqsUpTo(QueueFlagSets, MaxFamilies)
DeviceLists ==
    {D \in SeqsUpTo(FamilyLists, MaxDevices) : TotalFamilies(D) <= MaxFamilies}
LayerLists == SeqsUpTo(LayerNames, MaxLayers)

NullQueue == [device |-> VK_NULL_HANDLE, family |-> 0, index |-> 0]

VARIABLES
    layers,            \* backend: instance layers currently installed
    devices,           \* backend: physical devices, each its queue families
    instances,         \* backend: per instance handle, "live" or "destroyed"
    logicalDevices,    \* backend: per device handle, its creation record
    instance,          \* main.c:16
    physicalDevice,    \* main.c:17
    queueFamilyIndex,  \* main.c:18
    device,            \* main.c:19
    primaryQueue,      \* main.c:20
    pc,                \* where the caller's thread is
    useValidationLayers, \* argument of the crendInit call in progress
    result,            \* crendInit's local (main.c:153): the last step's code
    lastOp,            \* the API call made last
    trace,             \* backend calls of the API call made last, in order
    calls,             \* API calls made so far
    queueFamilies,     \* families the backend reported to the last selection
    enteredLive        \* history: globals holding a live handle when the
                       \*   crendInit call in progress was entered

vars == <<layers, devices, instances, logicalDevices, instance, physicalDevice,
          queueFamilyIndex, device, primaryQueue, pc, useValidationLayers,
          result, lastOp, trace, calls, queueFamilies, enteredLive>>


\* ------------------------------------------------- checkValidationLayerSupport
\* main.c:28-33: the loop over availableLayers, true at the first strcmp match.
RECURSIVE LayerScan(_, _)
LayerScan(L, i) ==
    IF i > Len(L) THEN FALSE
    ELSE IF L[i] = VALIDATION_LAYER_NAME THEN TRUE
    ELSE LayerScan(L, i + 1)

\* main.c:22-37. Both vkEnumerateInstanceLayerProperties calls see the list L.
checkValidationLayerSupport(L) == LayerScan(L, 1)

\* The backend calls one checkValidationLayerSupport makes (main.c:24, 27).
LayerCheckCalls(step) ==
    <<[step |-> step, call |-> "vkEnumerateInstanceLayerProperties"],
      [step |-> step, call |-> "vkEnumerateInstanceLayerProperties"]>>

\* LayerCheckFails with the test of useValidationLayers dropped.
LayerCheckFailsUnasked(uvl, L) == ~checkValidationLayerSupport(L)

\* main.c:59-61 and 129-131: the step gives up on the validation layers.
LayerCheckFails(uvl, L) == uvl /\ ~checkValidationLayerSupport(L)

\* ---------------------------------------------------------------- crendInit
\* Proceed with a retry in place of the early return: a failed step sends
\* crendInit back to its first step.
ProceedRetrying(res, next) == IF res # SUCCESS THEN "initInstance" ELSE next

\* Proceed with the early return left out: crendInit goes on after a failure.
ProceedIgnoringFailure(res, next) == next

\* main.c:154, 157, 160: `if (result != SUCCESS) return result;`
Proceed(res, next) == IF res # SUCCESS THEN "idle" ELSE next

\* InstanceResult with the VkResult test dropped.
InstanceResultUnchecked(createOk) == SUCCESS

\* main.c:70-75: the result of initInstance once vkCreateInstance has answered.
InstanceResult(createOk) ==
    IF createOk THEN SUCCESS ELSE ERROR_INSTANCE_CREATION

\* main.c:39-76, the outcome of initInstance: its result, whether a backend
\* instance now exists, and the backend calls made.
initInstance(uvl, L, createOk) ==
    IF LayerCheckFails(uvl, L)
    THEN [result |-> ERROR_VALIDATION_LAYERS, created |-> FALSE,
          calls |-> LayerCheckCalls("initInstance")]
    ELSE [result |-> InstanceResult(createOk), created |-> createOk,
          calls |-> (IF uvl THEN LayerCheckCalls("initInstance") ELSE <<>>)
                    \o <<[step |-> "initInstance", call |-> "vkCreateInstance"]>>]

\* The backend's view of a handle held by a global.
LiveInstance(h) == h # VK_NULL_HANDLE /\ instances[h] = "live"
LiveDevice(h) == h # VK_NULL_HANDLE /\ logicalDevices[h].status = "live"

\* The caller calls crendInit (main.c:148-152). Nothing guards the call: it
\* is accepted whatever the globals hold.
CrendInit ==
    /\ pc = "idle"
    /\ calls < MaxCalls
    /\ \E uvl \in BOOLEAN : useValidationLayers' = uvl
    /\ pc' = "initInstance"
    /\ trace' = <<>>
    /\ lastOp' = "crendInit"
    /\ calls' = calls + 1
    /\ enteredLive' = (IF LiveInstance(instance) THEN {"instance"} ELSE {})
                      \cup (IF LiveDevice(device) THEN {"device"} ELSE {})
    /\ UNCHANGED <<layers, devices, instances, logicalDevices, instance,
                   physicalDevice, queueFamilyIndex, device, primaryQueue,
                   result, queueFamilies>>

\* main.c:153-154 with main.c:39-76: initInstance runs, and crendInit returns
\* at once when it fails. vkCreateInstance writes the global only when it
\* succeeds.
InitInstance ==
    /\ pc = "initInstance"
    /\ \E createOk \in BOOLEAN :
         LET o == initInstance(useValidationLayers, layers, createOk) IN
         /\ result' = o.result
         /\ trace' = trace \o o.calls
         /\ IF o.created
            THEN /\ instances' = Append(instances, "live")
                 /\ instance' = Len(instances) + 1
            ELSE UNCHANGED <<instances, instance>>
         /\ pc' = Proceed(o.result, "initPhysicalDevice")
    /\ UNCHANGED <<layers, devices, logicalDevices, physicalDevice,
                   queueFamilyIndex, device, primaryQueue, useValidationLayers,
                   lastOp, calls, queueFamilies, enteredLive>>

\* ------------------------------------------------------- initPhysicalDevice
Min(a, b) == IF a < b THEN a ELSE b

\* main.c:79-80: deviceCount is filled by a vkEnumerateInstanceLayerProperties
\* count query, so it is the number of instance layers.
deviceCountQuery(L, D) == Len(L)

\* main.c:85-86: vkEnumeratePhysicalDevices fills at most deviceCount handles,
\* in backend order. A physical device's handle is its position in D.
availableDevices(D, deviceCount) ==
    [i \in 1..Min(deviceCount, Len(D)) |-> i]

\* main.c:87-90: the loop stores availableDevices[0] and breaks; with no
\* device written the global keeps the value pd it had.
FirstDevice(avail, pd) == IF Len(avail) > 0 THEN avail[1] ELSE pd

\* SupportsRequired with the comparison dropped: any one required bit passes.
SupportsAnyRequired(flags) == (flags \cap requiredFlags) # {}

\* main.c:99: (queueFlags & requiredFlags) == requiredFlags
SupportsRequired(flags) == (flags \cap requiredFlags) = requiredFlags

\* main.c:98-107: the loop over queueFamilies from index i (zero-based).
RECURSIVE ScanQueueFamilies(_, _)
ScanQueueFamilies(qf, i) ==
    IF i >= Len(qf)
    THEN [result |-> ERROR_NO_COMPATIBLE_QUEUE, found |-> FALSE, index |-> 0]
    ELSE IF SupportsRequired(qf[i + 1])
    THEN [result |-> SUCCESS, found |-> TRUE, index |-> i]
    ELSE ScanQueueFamilies(qf, i + 1)

\* main.c:93-96: what vkGetPhysicalDeviceQueueFamilyProperties reports for
\* handle pd. For a handle the backend never gave out (the null handle) the
\* call is undefined: the process dies, or the call writes nothing
\* (families <<>>, queueFamilyCount stays 0), or it writes anything.
QueueFamilyReports(D, pd) ==
    IF pd \in 1..Len(D)
    THEN {[crashed |-> FALSE, families |-> D[pd]]}
    ELSE {[crashed |-> TRUE, families |-> <<>>]}
         \cup {[crashed |-> FALSE, families |-> f] : f \in FamilyLists}

CountCalls ==
    <<[step |-> "initPhysicalDevice",
       call |-> "vkEnumerateInstanceLayerProperties"]>>

SelectionCalls ==
    <<[step |-> "initPhysicalDevice", call |-> "vkEnumeratePhysicalDevices"],
      [step |-> "initPhysicalDevice",
       call |-> "vkGetPhysicalDeviceQueueFamilyProperties"],
      [step |-> "initPhysicalDevice",
       call |-> "vkGetPhysicalDeviceQueueFamilyProperties"]>>

\* main.c:78-108: every outcome initPhysicalDevice can have when the backend
\* enumerates layers L and devices D and the globals hold pd and qfi: whether
\* the process died, the result, the globals afterwards, the families the
\* backend reported and the backend calls made.
initPhysicalDevice(L, D, pd, qfi) ==
    IF deviceCountQuery(L, D) = 0
    THEN {[crashed |-> FALSE, result |-> ERROR_VULKAN_UNSUPPORTED,
           physicalDevice |-> pd, queueFamilyIndex |-> qfi,
           scanned |-> FALSE, families |-> <<>>, calls |-> CountCalls]}
    ELSE LET first == FirstDevice(availableDevices(D, deviceCountQuery(L, D)),
                                  pd)
         IN
         {IF rep.crashed
          THEN [crashed |-> TRUE, result |-> SUCCESS,
                physicalDevice |-> first, queueFamilyIndex |-> qfi,
                scanned |-> FALSE, families |-> <<>>,
                calls |-> CountCalls \o SelectionCalls]
          ELSE LET s == ScanQueueFamilies(rep.families, 0) IN
               [crashed |-> FALSE, result |-> s.result,
                physicalDevice |-> first,
                queueFamilyIndex |-> IF s.found THEN s.index ELSE qfi,
                scanned |-> TRUE, families |-> rep.families,
                calls |-> CountCalls \o SelectionCalls]
          : rep \in QueueFamilyReports(D, first)}

\* main.c:156-157 with main.c:78-108.
InitPhysicalDevice ==
    /\ pc = "initPhysicalDevice"
    /\ \E o \in initPhysicalDevice(layers, devices, physicalDevice,
                                   queueFamilyIndex) :
         /\ physicalDevice' = o.physicalDevice
         /\ queueFamilyIndex' = o.queueFamilyIndex
         /\ trace' = trace \o o.calls
         /\ queueFamilies' = IF o.scanned THEN o.families ELSE queueFamilies
         /\ result' = IF o.crashed THEN result ELSE o.result
         /\ pc' = IF o.crashed THEN "crashed"
                  ELSE Proceed(o.result, "initLogicalDevice")
    /\ UNCHANGED <<layers, devices, instances, logicalDevices, instance,
                   device, primaryQueue, useValidationLayers, lastOp, calls,
                   enteredLive>>

\* -------------------------------------------------------- initLogicalDevice
\* queueCreateInfo with the family left at its zero initialisation.
queueCreateInfoFamilyZero(qfi) == [queueFamilyIndex |-> 0, queueCount |-> 1]

\* main.c:113-117, 122-123: one VkDeviceQueueCreateInfo, one queue of the
\* selected family.
queueCreateInfo(qfi) == [queueFamilyIndex |-> qfi, queueCount |-> 1]

\* main.c:143: vkGetDeviceQueue(device, queueFamilyIndex, 0, &primaryQueue):
\* a queue is identified by its device, family and index.
GetDeviceQueue(dev, qfi) == [device |-> dev, family |-> qfi, index |-> 0]

\* main.c:139: what vkCreateDevice answers for physical device pd. On a handle
\* that is no physical device the call is undefined.
CreateDeviceOutcomes(D, pd) ==
    IF pd \in 1..Len(D)
    THEN {"created", "failed"}
    ELSE {"created", "failed", "crashed"}

\* The backend calls of initLogicalDevice up to vkCreateDevice (main.c:129-139).
CreateDeviceCalls(uvl) ==
    (IF uvl THEN LayerCheckCalls("initLogicalDevice") ELSE <<>>)
    \o <<[step |-> "initLogicalDevice", call |-> "vkCreateDevice"]>>

\* main.c:159-162 with main.c:110-146.
InitLogicalDevice ==
    /\ pc = "initLogicalDevice"
    /\ IF LayerCheckFails(useValidationLayers, layers)
       THEN /\ result' = ERROR_VALIDATION_LAYERS
            /\ pc' = Proceed(ERROR_VALIDATION_LAYERS, "idle")
            /\ trace' = trace \o LayerCheckCalls("initLogicalDevice")
            /\ UNCHANGED <<logicalDevices, device, primaryQueue>>
       ELSE \E o \in CreateDeviceOutcomes(devices, physicalDevice) :
              CASE o = "created" ->
                     /\ logicalDevices' =
                          Append(logicalDevices,
                                 [physicalDevice |-> physicalDevice,
                                  queues |-> queueCreateInfo(queueFamilyIndex),
                                  status |-> "live"])
                     /\ device' = Len(logicalDevices) + 1
                     /\ primaryQueue' = GetDeviceQueue(device', queueFamilyIndex)
                     /\ result' = SUCCESS
                     /\ pc' = Proceed(SUCCESS, "idle")
                     /\ trace' = trace \o CreateDeviceCalls(useValidationLayers)
                                 \o <<[step |-> "initLogicalDevice",
                                       call |-> "vkGetDeviceQueue"]>>
                [] o = "failed" ->
                     /\ result' = ERROR_CANNOT_CREATE_LOGICAL_DEVICE
                     /\ pc' = Proceed(ERROR_CANNOT_CREATE_LOGICAL_DEVICE, "idle")
                     /\ trace' = trace \o CreateDeviceCalls(useValidationLayers)
                     /\ UNCHANGED <<logicalDevices, device, primaryQueue>>
                [] o = "crashed" ->
                     /\ pc' = "crashed"
                     /\ trace' = trace \o CreateDeviceCalls(useValidationLayers)
                     /\ UNCHANGED <<result, logicalDevices, device, primaryQueue>>
    /\ UNCHANGED <<layers, devices, instances, instance, physicalDevice,
                   queueFamilyIndex, useValidationLayers, lastOp, calls,
                   queueFamilies, enteredLive>>

\* ------------------------------------------------------------- crendDestroy
\* crendDestroyCalls with the two lines swapped.
crendDestroyCallsInstanceFirst == <<"vkDestroyInstance", "vkDestroyDevice">>

\* main.c:166-167: the two backend calls, in program order.
crendDestroyCalls == <<"vkDestroyDevice", "vkDestroyInstance">>

\* The backend's record of a handle after one more destroy call on it.
Destroyed(status) == IF status = "live" THEN "destroyed" ELSE "destroyedTwice"

\* The global a destroy call passes holds a handle that was destroyed before.
Dangling(call) ==
    IF call = "vkDestroyDevice"
    THEN device # VK_NULL_HANDLE /\ ~LiveDevice(device)
    ELSE instance # VK_NULL_HANDLE /\ ~LiveInstance(instance)

\* main.c:165-168. Nothing is tested before the calls and the globals are
\* left as they are. A null handle makes the backend call a no-op. A call on
\* a dangling handle is undefined: the process dies in it (crashAt names the
\* call) or goes on.
CrendDestroy ==
    /\ pc = "idle"
    /\ calls < MaxCalls
    /\ \E crashAt \in 0..Len(crendDestroyCalls) :
         /\ crashAt > 0 => Dangling(crendDestroyCalls[crashAt])
         /\ LET made == IF crashAt = 0 THEN crendDestroyCalls
                        ELSE SubSeq(crendDestroyCalls, 1, crashAt)
                called(c) == \E i \in 1..Len(made) : made[i] = c
            IN
            /\ logicalDevices' =
                 IF called("vkDestroyDevice") /\ device # VK_NULL_HANDLE
                 THEN [logicalDevices EXCEPT ![device].status = Destroyed(@)]
                 ELSE logicalDevices
            /\ instances' =
                 IF called("vkDestroyInstance") /\ instance # VK_NULL_HANDLE
                 THEN [instances EXCEPT ![instance] = Destroyed(@)]
                 ELSE instances
            /\ trace' = [i \in 1..Len(made) |->
                           [step |-> "crendDestroy", call |-> made[i]]]
            /\ pc' = IF crashAt = 0 THEN "idle" ELSE "crashed"
    /\ lastOp' = "crendDestroy"
    /\ calls' = calls + 1
    /\ UNCHANGED <<layers, devices, instance, physicalDevice, queueFamilyIndex,
                   device, primaryQueue, useValidationLayers, result,
                   queueFamilies, enteredLive>>

\* -------------------------------------------------------------- environment
\* The set of installed instance layers is outside the program's control and
\* may differ from one vkEnumerateInstanceLayerProperties call to the next;
\* the physical devices do not change while the process runs.
LayersChange ==
    /\ pc # "crashed"
    /\ pc = "idle" => calls < MaxCalls
    /\ \E L \in LayerLists : L # layers /\ layers' = L
    /\ UNCHANGED <<devices, instances, logicalDevices, instance, physicalDevice,
                   queueFamilyIndex, device, primaryQueue, pc,
                   useValidationLayers, result, lastOp, trace, calls,
                   queueFamilies, enteredLive>>

\* ------------------------------------------------------------ specification
\* The state at program start: the globals are zero-initialised (main.c:16-20)
\* and the backend has handed out nothing.
Init ==
    /\ layers \in LayerLists
    /\ devices \in DeviceLists
    /\ instances = <<>>
    /\ logicalDevices = <<>>
    /\ instance = VK_NULL_HANDLE
    /\ physicalDevice = VK_NULL_HANDLE
    /\ queueFamilyIndex = 0
    /\ device = VK_NULL_HANDLE
    /\ primaryQueue = NullQueue
    /\ pc = "idle"
    /\ useValidationLayers = FALSE
    /\ result = SUCCESS
    /\ lastOp = "none"
    /\ trace = <<>>
    /\ calls = 0
    /\ queueFamilies = <<>>
    /\ enteredLive = {}

Next ==
    \/ CrendInit
    \/ InitInstance
    \/ InitPhysicalDevice
    \/ InitLogicalDevice
    \/ CrendDestroy
    \/ LayersChange

Spec == Init /\ [][Next]_vars

\* ------------------------------------------------------------ observations
\* crendInit has returned to its caller.
Returned == pc = "idle" /\ lastOp = "crendInit"

\* The API call made last has made a backend call in `step`.
Made(step) == \E i \in 1..Len(trace) : trace[i].step = step

\* The API call made last has made the backend call `call` in `step`.
MadeCall(step, call) ==
    \E i \in 1..Len(trace) : trace[i] = [step |-> step, call |-> call]

\* How often the API call made last has made the backend call `call`.
TimesCalled(call) == Cardinality({i \in 1..Len(trace) : trace[i].call = call})

StepRank(step) ==
    CASE step = "initInstance" -> 1
      [] step = "initPhysicalDevice" -> 2
      [] step = "initLogicalDevice" -> 3
      [] OTHER -> 0

\* initPhysicalDevice has returned and no later step has run yet.
SelectionReturned ==
    /\ lastOp = "crendInit"
    /\ pc \in {"idle", "initLogicalDevice"}
    /\ Len(trace) > 0
    /\ trace[Len(trace)].step = "initPhysicalDevice"

\* The zero-based indices of the families of F that have every required flag.
FullFamilies(F) == {i \in 0..(Len(F) - 1) : requiredFlags \subseteq F[i + 1]}

\* The validation layer is among the layers the backend enumerates.
LayerPresent == \E i \in 1..Len(layers) : layers[i] = VALIDATION_LAYER_NAME

\* The step at `at` runs in this transition.
StepRuns(at) == pc = at /\ pc' # pc

\* This transition is a crendDestroy call.
DestroyRuns == lastOp' = "crendDestroy" /\ calls' = calls + 1

\* ------------------------------------------------------------------ claims
\* C1: crendInit runs initInstance, initPhysicalDevice, initLogicalDevice in
\* that order and stops at the first failure: a later step starts only with
\* result = SUCCESS, the code returned belongs to the last step that made
\* backend calls, no later step made a call, and SUCCESS is returned only
\* after all three steps ran to their end.
C1_StrictOrderShortCircuit ==
    lastOp = "crendInit" =>
      /\ \A i, j \in 1..Len(trace) :
           i < j => StepRank(trace[i].step) <= StepRank(trace[j].step)
      /\ \A i \in 1..Len(trace) : StepRank(trace[i].step) > 0
      /\ pc = "initInstance" => trace = <<>>
      /\ pc = "initPhysicalDevice" =>
           /\ result = SUCCESS
           /\ MadeCall("initInstance", "vkCreateInstance")
           /\ ~Made("initPhysicalDevice") /\ ~Made("initLogicalDevice")
      /\ pc = "initLogicalDevice" =>
           /\ result = SUCCESS
           /\ MadeCall("initInstance", "vkCreateInstance")
           /\ MadeCall("initPhysicalDevice", "vkEnumeratePhysicalDevices")
           /\ ~Made("initLogicalDevice")
      /\ Returned =>
           /\ result = SUCCESS =>
                /\ MadeCall("initInstance", "vkCreateInstance")
                /\ MadeCall("initPhysicalDevice", "vkEnumeratePhysicalDevices")
                /\ MadeCall("initLogicalDevice", "vkCreateDevice")
                /\ trace[Len(trace)].call = "vkGetDeviceQueue"
           /\ result = ERROR_INSTANCE_CREATION =>
                /\ trace[Len(trace)].call = "vkCreateInstance"
                /\ ~Made("initPhysicalDevice") /\ ~Made("initLogicalDevice")
           /\ result \in {ERROR_VULKAN_UNSUPPORTED, ERROR_NO_COMPATIBLE_QUEUE} =>
                /\ MadeCall("initInstance", "vkCreateInstance")
                /\ trace[Len(trace)].step = "initPhysicalDevice"
                /\ ~Made("initLogicalDevice")
           /\ result = ERROR_CANNOT_CREATE_LOGICAL_DEVICE =>
                /\ MadeCall("initPhysicalDevice", "vkEnumeratePhysicalDevices")
                /\ trace[Len(trace)].call = "vkCreateDevice"
           /\ result = ERROR_VALIDATION_LAYERS =>
                /\ trace[Len(trace)].call = "vkEnumerateInstanceLayerProperties"
                /\ trace[Len(trace)].step \in {"initInstance", "initLogicalDevice"}
                /\ trace[Len(trace)].step = "initInstance" =>
                     ~Made("initPhysicalDevice") /\ ~Made("initLogicalDevice")
           /\ result \in {SUCCESS, ERROR_INSTANCE_CREATION,
                          ERROR_VALIDATION_LAYERS, ERROR_VULKAN_UNSUPPORTED,
                          ERROR_NO_COMPATIBLE_QUEUE,
                          ERROR_CANNOT_CREATE_LOGICAL_DEVICE}

\* C1 witness: crendInit has returned the selection's failure after a
\* successful instance creation, and initLogicalDevice never ran.
C1_Witness ==
    /\ Returned
    /\ result = ERROR_NO_COMPATIBLE_QUEUE
    /\ MadeCall("initInstance", "vkCreateInstance")
    /\ ~Made("initLogicalDevice")

\* C2: initPhysicalDevice returns ERROR_VULKAN_UNSUPPORTED exactly when the
\* backend enumerates no physical device, whatever the instance layers are.
C2_UnsupportedIffNoDevices ==
    SelectionReturned => (result = ERROR_VULKAN_UNSUPPORTED <=> devices = <<>>)

C4_FirstDeviceOnly ==
    (SelectionReturned /\ devices # <<>>) =>
      /\ physicalDevice = 1
      /\ FullFamilies(devices[1]) = {} => result = ERROR_NO_COMPATIBLE_QUEUE

\* C5, as claimed: crendInit never stores a newly created handle in a global
\* that still holds a live handle.
C5_NeverOverwritesLive ==
    [][/\ instance' # instance => ~LiveInstance(instance)
       /\ device' # device => ~LiveDevice(device)
       /\ primaryQueue' # primaryQueue => ~LiveDevice(primaryQueue.device)]_vars

\* C5, amended: one crendInit call creates each handle at most once, and it
\* overwrites a live handle in a global only if that global already held the
\* live handle when the call was entered (the caller re-entered crendInit
\* without a crendDestroy in between).
C5_OverwritesOnlyWhatWasLiveAtEntry ==
    [][/\ (instance' # instance /\ LiveInstance(instance)) =>
            "instance" \in enteredLive
       /\ (device' # device /\ LiveDevice(device)) => "device" \in enteredLive
       /\ lastOp' = "crendInit" =>
            /\ TimesCalled("vkCreateInstance")' <= 1
            /\ TimesCalled("vkCreateDevice")' <= 1
            /\ TimesCalled("vkGetDeviceQueue")' <= 1]_vars

\* C5 witness: a crendInit entered while the instance global held a live
\* handle has stored a second instance there; the first one is still live.
C5_Witness ==
    /\ lastOp = "crendInit"
    /\ "instance" \in enteredLive
    /\ instance = 2
    /\ instances[1] = "live"
    /\ instances[2] = "live"

\* A later step of the crendInit that has returned failed.
LaterStepFailed ==
    /\ Returned
    /\ result # SUCCESS
    /\ Made("initPhysicalDevice") \/ Made("initLogicalDevice")

\* C6: when a step after instance creation fails, crendInit returns with the
\* instance it created still live in the global, and an instance handle
\* stops being live only in a crendDestroy call.
C6_NoRollback ==
    [][/\ LaterStepFailed' =>
            /\ MadeCall("initInstance", "vkCreateInstance")'
            /\ LiveInstance(instance)'
            /\ instance' = Len(instances')
       /\ \A h \in 1..Len(instances) :
            (instances[h] = "live" /\ instances'[h] # "live") => DestroyRuns]_vars

\* C6 witness: the device step found the validation layer gone and crendInit
\* returned with the instance live.
C6_Witness ==
    /\ LaterStepFailed
    /\ result = ERROR_VALIDATION_LAYERS
    /\ Made("initLogicalDevice")
    /\ LiveInstance(instance)

\* C7, as claimed: crendDestroy destroys handles only when the logical device
\* and the instance are both live, afterwards no backend handle is live, and
\* no handle is destroyed twice.
C7_DestroyOnlyWhenReady ==
    [][DestroyRuns =>
         /\ (instances' # instances \/ logicalDevices' # logicalDevices) =>
              LiveDevice(device) /\ LiveInstance(instance)
         /\ \A h \in 1..Len(instances') : instances'[h] = "destroyed"
         /\ \A h \in 1..Len(logicalDevices') :
              logicalDevices'[h].status = "destroyed"]_vars

\* C7, amended: crendDestroy called while the device and instance globals
\* both hold live handles destroys the logical device, then the instance,
\* each once, touches no other handle and returns. (Called in any other
\* state it makes the same two calls on whatever the globals hold.)
C7_DestroyFromReady ==
    [][(DestroyRuns /\ LiveDevice(device) /\ LiveInstance(instance)) =>
         /\ trace' = <<[step |-> "crendDestroy", call |-> "vkDestroyDevice"],
                       [step |-> "crendDestroy", call |-> "vkDestroyInstance"]>>
         /\ logicalDevices' =
              [logicalDevices EXCEPT ![device].status = "destroyed"]
         /\ instances' = [instances EXCEPT ![instance] = "destroyed"]
         /\ pc' = "idle"]_vars

\* C7 witness: crendDestroy has run after a successful crendInit.
C7_Witness ==
    /\ lastOp = "crendDestroy"
    /\ pc = "idle"
    /\ device # VK_NULL_HANDLE
    /\ instance # VK_NULL_HANDLE
    /\ logicalDevices[device].status = "destroyed"
    /\ instances[instance] = "destroyed"

\* The crendInit call made last consulted the layer enumeration to decide on
\* the validation layers.
LayerCheckMade ==
    \/ MadeCall("initInstance", "vkEnumerateInstanceLayerProperties")
    \/ MadeCall("initLogicalDevice", "vkEnumerateInstanceLayerProperties")

\* C8, as claimed: with useValidationLayers, crendInit returns
\* ERROR_VALIDATION_LAYERS when the layer is missing, and whenever it returns
\* that code it has created no instance; without useValidationLayers it never
\* returns the code and never consults the enumeration for the decision.
C8_NoInstanceOnLayerFailure ==
    [][/\ (StepRuns("initInstance") /\ useValidationLayers /\ ~LayerPresent) =>
            pc' = "idle" /\ result' = ERROR_VALIDATION_LAYERS
       /\ (Returned /\ result = ERROR_VALIDATION_LAYERS)' =>
            /\ useValidationLayers'
            /\ ~MadeCall("initInstance", "vkCreateInstance")'
       /\ (lastOp = "crendInit" /\ ~useValidationLayers)' =>
            /\ ~(Returned /\ result = ERROR_VALIDATION_LAYERS)'
            /\ ~LayerCheckMade']_vars

\* C8, amended: with useValidationLayers, a step that checks the layers
\* (initInstance, initLogicalDevice) and finds the layer missing makes
\* crendInit return ERROR_VALIDATION_LAYERS; no instance has been created by
\* the call when initInstance returned it, and the instance created by the
\* call is live when initLogicalDevice returned it. Without
\* useValidationLayers the code is never returned and neither step consults
\* the enumeration.
C8_LayerFailureByStep ==
    [][/\ (StepRuns("initInstance") /\ useValidationLayers /\ ~LayerPresent) =>
            /\ pc' = "idle" /\ result' = ERROR_VALIDATION_LAYERS
            /\ instances' = instances /\ instance' = instance
       /\ (StepRuns("initLogicalDevice") /\ useValidationLayers
           /\ ~LayerPresent) =>
            /\ pc' = "idle" /\ result' = ERROR_VALIDATION_LAYERS
            /\ logicalDevices' = logicalDevices /\ device' = device
       /\ (Returned /\ result = ERROR_VALIDATION_LAYERS)' =>
            /\ useValidationLayers'
            /\ ~Made("initLogicalDevice")' =>
                 ~MadeCall("initInstance", "vkCreateInstance")'
            /\ Made("initLogicalDevice")' =>
                 /\ MadeCall("initInstance", "vkCreateInstance")'
                 /\ LiveInstance(instance)'
       /\ (lastOp = "crendInit" /\ ~useValidationLayers)' =>
            /\ ~(Returned /\ result = ERROR_VALIDATION_LAYERS)'
            /\ ~LayerCheckMade']_vars

\* C8 witness: asked for validation layers the backend does not have,
\* crendInit returned ERROR_VALIDATION_LAYERS from initInstance without
\* creating an instance.
C8_Witness ==
    /\ Returned
    /\ useValidationLayers
    /\ result = ERROR_VALIDATION_LAYERS
    /\ ~MadeCall("initInstance", "vkCreateInstance")
    /\ instances = <<>>

\* Two successive selections against layers L and devices D, started with pd
\* and qfi in the globals, end alike.
SelectionIdempotent(L, D, pd, qfi) ==
    \A o1 \in initPhysicalDevice(L, D, pd, qfi) :
      ~o1.crashed =>
        \A o2 \in initPhysicalDevice(L, D, o1.physicalDevice,
                                     o1.queueFamilyIndex) :
          /\ ~o2.crashed
          /\ o2.result = o1.result
          /\ o2.physicalDevice = o1.physicalDevice
          /\ o2.queueFamilyIndex = o1.queueFamilyIndex

\* C9: a failing selection leaves physicalDevice and queueFamilyIndex as they
\* were, and a selection run twice against the same enumeration gives the
\* same result, device and queue family index.
C9_SelectionPure ==
    [][StepRuns("initPhysicalDevice") =>
         /\ (pc' = "idle"
             /\ result' \in {ERROR_VULKAN_UNSUPPORTED,
                             ERROR_NO_COMPATIBLE_QUEUE}) =>
              /\ physicalDevice' = physicalDevice
              /\ queueFamilyIndex' = queueFamilyIndex
         /\ SelectionIdempotent(layers, devices, physicalDevice,
                                queueFamilyIndex)]_vars

\* What holds of the globals and the backend when crendInit returned SUCCESS.
ReadyState ==
    /\ device = Len(logicalDevices)
    /\ logicalDevices[device] =
         [physicalDevice |-> physicalDevice,
          queues |-> [queueFamilyIndex |-> queueFamilyIndex, queueCount |-> 1],
          status |-> "live"]
    /\ primaryQueue =
         [device |-> device, family |-> queueFamilyIndex, index |-> 0]
    /\ queueFamilyIndex < Len(queueFamilies)
    /\ requiredFlags \subseteq queueFamilies[queueFamilyIndex + 1]
    /\ physicalDevice \in 1..Len(devices) =>
         queueFamilies = devices[physicalDevice]
    /\ TimesCalled("vkCreateDevice") = 1
    /\ TimesCalled("vkGetDeviceQueue") = 1

\* C10: when crendInit returns SUCCESS the logical device was created on the
\* stored physical device with one queue of family queueFamilyIndex,
\* primaryQueue is queue 0 of that family on that device, the family has the
\* graphics, compute and transfer flags, and nothing changed the selection
\* after the selection step.
C10_DeviceBuiltFromSelection ==
    [][/\ (Returned /\ result = SUCCESS)' => ReadyState'
       /\ (pc = "initLogicalDevice" /\ lastOp' = "crendInit") =>
            /\ physicalDevice' = physicalDevice
            /\ queueFamilyIndex' = queueFamilyIndex]_vars

\* C10 witness: crendInit returned SUCCESS with the second family of the
\* first device selected.
C10_Witness ==
    /\ Returned
    /\ result = SUCCESS
    /\ physicalDevice = 1
    /\ queueFamilyIndex = 1
    /\ LiveDevice(device)

====
